---- MODULE Spec2Model ----
(***************************************************************************)
(* Model of the alcohol-label verification program: the verification       *)
(* engine (src/rag_system.py, class RAGSystem) and the review application  *)
(* that drives it (src/app.py).                                            *)
(*                                                                         *)
(* Text is modelled as a sequence of tokens.  A token is a keyword anchor, *)
(* a punctuation or whitespace character, or a word group; substring       *)
(* tests of the code become tests on tokens.  The fuzzy-similarity library *)
(* is an external collaborator: its scores are given by a table over the   *)
(* tokens of the model (TokSim, HwsTokScore).                              *)
(***************************************************************************)
EXTENDS Integers, Sequences, FiniteSets, TLC

VARIABLES
    applications,   \* RAGSystem.applications: the application library
    all_results,    \* st.session_state.all_results
    editing_mode,   \* st.session_state.editing_mode: the indices mapped to True
    st_error,       \* the st.error message of the last script run, "none" without one
    report,         \* the rows of the audit report the last script run offers for
                    \* download, <<>> when it offers none
    returned,       \* verify_label calls since the library last changed: label name ->
                    \* the number of calls and the set of what they returned
    text,           \* field extraction: the input text
    extracted,      \* field extraction: the mapping returned, NoMapping before the call
    verify_in,      \* a single verification: the label file given to verify_label
    verify_out,     \* a single verification: what the call returned, NoResult before it
    batch_files,    \* a batch call: the files submitted to the pool
    task_state,     \* a batch call: each future, [state, outcome]
    batch_results,  \* a batch call: the local list `results`
    batch_pc,       \* a batch call: "idle", "running" or "returned"
    max_workers     \* RAGSystem.max_workers

reviewVars == <<all_results, editing_mode, st_error, report>>
extractVars == <<text, extracted>>
verifyVars == <<verify_in, verify_out>>
batchVars == <<batch_files, task_state, batch_results, batch_pc, max_workers>>

vars == <<applications, reviewVars, returned, extractVars, verifyVars, batchVars>>

-----------------------------------------------------------------------------
(* Bounds of the model *)

MaxTextLen == 4      \* longest text given to field extraction
MaxApps == 1         \* the review application's library is not grown beyond this
MaxLibrary == 2      \* most records of a library the engine is called on directly
MaxBatch == 3        \* most label files in one verify_labels_batch call
MaxRetyped == 1      \* most detected values the reviewer retypes before one Save
MaxCalls == 2        \* most verify_label calls per label file between library changes

-----------------------------------------------------------------------------
(* Strings *)

NotFound == <<"not found">>
MismatchMissing == <<"Mismatch/Missing">>
EmptyString == <<>>

\* str.lower() on one token
Lower(tok) ==
    CASE tok = "Brand Name" -> "brand name"
      [] tok = "Old Barrel" -> "old barrel"
      [] tok = "OLD BARREL" -> "old barrel"
      [] tok = "Bourbon Whiskey" -> "bourbon whiskey"
      [] tok = "Red Wine" -> "red wine"
      [] tok = "USA" -> "usa"
      [] tok = "Barrel Co" -> "barrel co"
      [] tok = "GOVERNMENT WARNING" -> "government warning"
      [] tok = "Government Warning" -> "government warning"
      [] tok = "GOVERNMENT" -> "government"
      [] tok = "WARNING" -> "warning"
      [] tok = "Mismatch/Missing" -> "mismatch/missing"
      [] OTHER -> tok

LowerText(s) == [i \in 1..Len(s) |-> Lower(s[i])]

IsSpace(tok) == tok \in {" ", "\n"}

\* re.sub(r'\s+', ' ', text): every run of whitespace becomes one space
RECURSIVE CollapseSpace(_)
CollapseSpace(s) ==
    IF s = <<>> THEN <<>>
    ELSE IF IsSpace(Head(s))
         THEN IF Len(s) > 1 /\ IsSpace(s[2])
              THEN CollapseSpace(Tail(s))
              ELSE <<" ">> \o CollapseSpace(Tail(s))
         ELSE <<Head(s)>> \o CollapseSpace(Tail(s))

\* str.strip(): whitespace removed at both ends
RECURSIVE LStrip(_)
LStrip(s) == IF s # <<>> /\ IsSpace(Head(s)) THEN LStrip(Tail(s)) ELSE s

RECURSIVE RStrip(_)
RStrip(s) ==
    IF s # <<>> /\ IsSpace(s[Len(s)]) THEN RStrip(SubSeq(s, 1, Len(s) - 1)) ELSE s

Strip(s) == RStrip(LStrip(s))

\* re.sub(r'^[:\-\s\t\.]+', '', raw_val): leading colons, dashes, whitespace, periods
RECURSIVE DropLeadingPunct(_)
DropLeadingPunct(s) ==
    IF s # <<>> /\ (IsSpace(Head(s)) \/ Head(s) \in {":", "-", "."})
    THEN DropLeadingPunct(Tail(s))
    ELSE s

-----------------------------------------------------------------------------
(* Field configuration *)

FIELD_CONFIG == <<
    [id |-> "brand", label |-> "Brand Name", keywords |-> <<"brand name">>],
    [id |-> "type", label |-> "Class/Type",
        keywords |-> <<"class/type designation", "class/type">>],
    [id |-> "abv", label |-> "Alcohol Content", keywords |-> <<"alcohol content">>],
    [id |-> "net_contents", label |-> "Net Contents", keywords |-> <<"net contents">>],
    [id |-> "address", label |-> "Address", keywords |-> <<"name and address">>],
    [id |-> "origin", label |-> "Origin", keywords |-> <<"country of origin">>],
    [id |-> "hws", label |-> "Health Warning",
        keywords |-> <<"government health warning", "government warning">> ] >>

NoPos == -1

\* Whether the pattern re.escape(kw), re.IGNORECASE matches inside token tok.
\* "class/type" is the one keyword that is a proper substring of an anchor token.
KwIn(kw, tok) ==
    \/ Lower(tok) = kw
    \/ kw = "class/type" /\ Lower(tok) = "class/type designation"

\* pattern.search(s[from:]): the index of the leftmost matching token, 0 when none
SearchFrom(kw, s, from) ==
    LET hits == {i \in from..Len(s) : KwIn(kw, s[i])}
    IN  IF hits = {} THEN 0 ELSE CHOOSE i \in hits : \A j \in hits : i <= j

\* The loop over cfg["keywords"]: the first keyword, in configured order, that matches
\* anywhere after `from`; the position of its leftmost match, 0 when no keyword matches.
RECURSIVE FirstKeywordMatch(_, _, _, _)
FirstKeywordMatch(kws, k, s, from) ==
    IF k > Len(kws) THEN 0
    ELSE IF SearchFrom(kws[k], s, from) # 0 THEN SearchFrom(kws[k], s, from)
    ELSE FirstKeywordMatch(kws, k + 1, s, from)

\* start_pos = match.end(): the index of the first token after the anchor.
\* A keyword that matches a proper part of a token is never the one found here:
\* the keyword equal to the whole token comes first in FIELD_CONFIG.
StartPos(i, clean) ==
    LET m == FirstKeywordMatch(FIELD_CONFIG[i].keywords, 1, clean, 1)
    IN  IF m = 0 THEN NoPos ELSE m + 1

\* end_pos, were the next field's keywords searched in the whole text and not in
\* clean_text[start_pos:]
EndPosWholeText(i, clean, start_pos) ==
    IF i + 1 <= Len(FIELD_CONFIG)
    THEN LET m == FirstKeywordMatch(FIELD_CONFIG[i + 1].keywords, 1, clean, 1)
         IN  IF m = 0 THEN Len(clean) + 1 ELSE m
    ELSE Len(clean) + 1

\* end_pos: the start of the next field's first matching keyword after start_pos,
\* len(clean_text) otherwise (here: one past the last token)
EndPos(i, clean, start_pos) ==
    IF i + 1 <= Len(FIELD_CONFIG)
    THEN LET m == FirstKeywordMatch(FIELD_CONFIG[i + 1].keywords, 1, clean, start_pos)
         IN  IF m = 0 THEN Len(clean) + 1 ELSE m
    ELSE Len(clean) + 1

FieldValue(i, clean) ==
    LET start_pos == StartPos(i, clean)
        end_pos == EndPos(i, clean, start_pos)
        raw_val == DropLeadingPunct(Strip(SubSeq(clean, start_pos, end_pos - 1)))
    IN  IF raw_val # <<>> THEN raw_val ELSE NotFound

FieldIndexOf(id) == CHOOSE i \in 1..Len(FIELD_CONFIG) : FIELD_CONFIG[i].id = id

\* RAGSystem._extract_structural_data: a key is set only for a field whose anchor is found
ExtractStructuralData(t) ==
    LET clean == CollapseSpace(t)
        found == {i \in 1..Len(FIELD_CONFIG) : StartPos(i, clean) # NoPos}
    IN  [id \in {FIELD_CONFIG[i].id : i \in found} |->
            FieldValue(FieldIndexOf(id), clean)]

\* dict.get(key, default)
Get(d, key, default) == IF key \in DOMAIN d THEN d[key] ELSE default

-----------------------------------------------------------------------------
(* Ingestion *)

SpiritTokens == {"bourbon whiskey"}
WineTokens == {"red wine"}

\* the category chain of ingest_document on raw_text.lower()
Category(raw_text) ==
    IF \E i \in 1..Len(raw_text) : Lower(raw_text[i]) \in SpiritTokens THEN "Spirits"
    ELSE IF \E i \in 1..Len(raw_text) : Lower(raw_text[i]) \in WineTokens THEN "Wine"
    ELSE "Beer"

\* The dict ingest_document appends: the extracted mapping plus the keys file_name and
\* category.  file.raw_text is the text the decoder (or OCR) returned for the file.
IngestRecord(file) ==
    ("file_name" :> file.name) @@ ("category" :> Category(file.raw_text))
        @@ ExtractStructuralData(file.raw_text)

-----------------------------------------------------------------------------
(* Fuzzy similarity (thefuzz), on lower-cased text *)

\* The similarity of two different tokens; every pair not listed scores 0.
NearScore(a, b) ==
    CASE {a, b} = {"45% alc/vol", "45% a1c/vo1"} -> 70
      [] {a, b} = {"750 ml", "75O m1"} -> 71
      [] {a, b} = {"45% alc/vol", "45% / 75o"} -> 70
      [] {a, b} = {"750 ml", "45% / 75o"} -> 71
      [] OTHER -> 0

TokSim(a, b) == IF a = b THEN 100 ELSE NearScore(a, b)

Max(S) == CHOOSE x \in S : \A y \in S : y <= x

RECURSIVE SumTokSim(_, _, _, _)
SumTokSim(short, long, offset, k) ==
    IF k > Len(short) THEN 0
    ELSE TokSim(short[k], long[offset + k]) + SumTokSim(short, long, offset, k + 1)

\* fuzz.partial_ratio: the best score of the shorter text against a window of the same
\* length of the longer one; 0 when exactly one of the two is empty
PartialRatio(s1, s2) ==
    IF s1 = <<>> /\ s2 = <<>> THEN 100
    ELSE IF s1 = <<>> \/ s2 = <<>> THEN 0
    ELSE LET short == IF Len(s1) <= Len(s2) THEN s1 ELSE s2
             long == IF Len(s1) <= Len(s2) THEN s2 ELSE s1
         IN  Max({SumTokSim(short, long, offset, 1) \div Len(short) :
                    offset \in 0..(Len(long) - Len(short))})

\* How close one recognized token is to the statutory statement HWS_MASTER_TEXT
HwsTokScore(tok) ==
    CASE tok = "statement (exact)" -> 100
      [] tok = "statement (ocr 81)" -> 81
      [] tok = "statement (ocr 80)" -> 80
      [] OTHER -> 0

\* fuzz.token_set_ratio(HWS_MASTER_TEXT.lower(), label_text.lower())
TokenSetRatio(label_text) ==
    Max({0} \cup {HwsTokScore(label_text[i]) : i \in 1..Len(label_text)})

-----------------------------------------------------------------------------
(* Bold detection and OCR *)

BoldRatioThreshold == 400     \* 0.04, in units of 1/10000

\* RAGSystem._is_bold on one bounding box.  box.crop is "empty" when the crop has no
\* pixel, "error" when the image processing raises, "ok" otherwise; box.ratio is
\* max_thickness / height in units of 1/10000.
IsBold(box) ==
    IF box.crop = "empty" THEN FALSE
    ELSE IF box.crop = "error" THEN FALSE
    ELSE box.ratio > BoldRatioThreshold

\* _get_ocr_data: full_text joins the recognized texts in detection order
FullText(ocr_results) == [i \in 1..Len(ocr_results) |-> ocr_results[i].text]

\* "GOVERNMENT WARNING" in label_text (exact case); the two words may come from two
\* consecutive OCR triples, which full_text joins with one space
HasCaps(label_text) ==
    \E i \in 1..Len(label_text) :
        \/ label_text[i] = "GOVERNMENT WARNING"
        \/ i < Len(label_text) /\ label_text[i] = "GOVERNMENT" /\ label_text[i + 1] = "WARNING"

\* "GOVERNMENT" in text.upper()
UpperHasGovernment(tok) == Lower(tok) \in {"government warning", "government"}

\* the scan of ocr_results that sets is_bold_found
IsBoldFound(ocr_results) ==
    \E i \in 1..Len(ocr_results) :
        UpperHasGovernment(ocr_results[i].text) /\ IsBold(ocr_results[i].box)

-----------------------------------------------------------------------------
(* Label verification *)

FieldMatchThreshold == 70
HwsThreshold == 80

NoCategory == "None"     \* force_category=None

\* The loop with "score >= highest_score": the last application of the highest score
\* would win, and an application scoring 0 would be matched.
RECURSIVE BestAppFromLast(_, _, _, _, _)
BestAppFromLast(apps, k, best, highest_score, label_text) ==
    IF k > Len(apps) THEN best
    ELSE LET score == PartialRatio(LowerText(Get(apps[k], "brand", EmptyString)),
                                   LowerText(label_text))
         IN  IF score >= highest_score
             THEN BestAppFromLast(apps, k + 1, k, score, label_text)
             ELSE BestAppFromLast(apps, k + 1, best, highest_score, label_text)

\* The loop that picks best_app: the index of the first application whose score is
\* greater than every score before it and greater than 0; 0 when there is none.
RECURSIVE BestAppFrom(_, _, _, _, _)
BestAppFrom(apps, k, best, highest_score, label_text) ==
    IF k > Len(apps) THEN best
    ELSE LET score == PartialRatio(LowerText(Get(apps[k], "brand", EmptyString)),
                                   LowerText(label_text))
         IN  IF score > highest_score
             THEN BestAppFrom(apps, k + 1, k, score, label_text)
             ELSE BestAppFrom(apps, k + 1, best, highest_score, label_text)

BestApp(apps, label_text) == BestAppFrom(apps, 1, 0, 0, label_text)

\* one entry of `comparisons` for a field other than the health warning
FieldComparison(cfg, best_app, label_text) ==
    LET app_val == Get(best_app, cfg.id, NotFound)
        match_score == PartialRatio(LowerText(app_val), LowerText(label_text))
        is_match == IF app_val # NotFound THEN match_score > FieldMatchThreshold ELSE FALSE
    IN  [field |-> cfg.label,
         app |-> app_val,
         label_val |-> IF is_match THEN app_val ELSE MismatchMissing,
         status |-> IF is_match THEN "Match" ELSE "Fail"]

\* hws_status with an inclusive threshold
HwsStatusInclusive(hws_score, has_caps, is_bold_found) ==
    IF hws_score >= HwsThreshold /\ has_caps /\ is_bold_found THEN "Match" ELSE "Fail"

\* hws_status
HwsStatus(hws_score, has_caps, is_bold_found) ==
    IF hws_score > HwsThreshold /\ has_caps /\ is_bold_found THEN "Match" ELSE "Fail"

\* the health-warning entry of `comparisons`; label_val is the formatted string
\* "<score>% Text Match | <caps_str> | <bold_str>", kept as its three parts
HwsComparison(label_text, ocr_results) ==
    LET hws_score == TokenSetRatio(LowerText(label_text))
        has_caps == HasCaps(label_text)
        is_bold_found == IsBoldFound(ocr_results)
    IN  [field |-> "HEALTH WARNING",
         app |-> <<"Regulatory Text + CAPS + BOLD">>,
         label_val |-> <<hws_score,
                         IF has_caps THEN "CAPS" ELSE "NOT CAPS",
                         IF is_bold_found THEN "BOLD" ELSE "NOT BOLD">>,
         status |-> HwsStatus(hws_score, has_caps, is_bold_found)]

FieldIndexes == {i \in 1..Len(FIELD_CONFIG) : FIELD_CONFIG[i].id # "hws"}

\* the indices of S in increasing order
RECURSIVE Ascending(_)
Ascending(S) ==
    IF S = {} THEN <<>>
    ELSE LET m == CHOOSE x \in S : \A y \in S : x <= y
         IN  <<m>> \o Ascending(S \ {m})

\* FIELD_CONFIG without the "hws" entry, in configured order
ComparedFields == Ascending(FieldIndexes)

Comparisons(best_app, label_text, ocr_results) ==
    [k \in 1..Len(ComparedFields) |->
        FieldComparison(FIELD_CONFIG[ComparedFields[k]], best_app, label_text)]
            \o <<HwsComparison(label_text, ocr_results)>>

\* all(c["status"] == "Match" for c in comparisons)
AllMatch(comparisons) == \A k \in 1..Len(comparisons) : comparisons[k].status = "Match"

\* ai_status with any() in place of all()
AiStatusAnyMatch(comparisons) ==
    IF \E k \in 1..Len(comparisons) : comparisons[k].status = "Match"
    THEN "Pass" ELSE "Fail"

AiStatus(comparisons) == IF AllMatch(comparisons) THEN "Pass" ELSE "Fail"

\* Whether Image.open and the OCR of the label file succeed
Readable(label_file) == label_file.readable

\* RAGSystem._verify_single_label on a readable label file; elapsed is the measured time
VerifySingleLabel(label_file, force_category, apps, elapsed) ==
    LET ocr_results == label_file.ocr
        label_text == FullText(ocr_results)
        best == BestApp(apps, label_text)
        res == [label_file |-> label_file.name, processing_time |-> elapsed,
                is_human_decision |-> FALSE, ai_status |-> "Fail",
                final_status |-> "Fail", app_file |-> "None",
                category |-> IF force_category # NoCategory THEN force_category
                             ELSE "Unknown",
                comparisons |-> <<>>]
    IN  IF best = 0 THEN res
        ELSE LET best_app == apps[best]
                 comparisons == Comparisons(best_app, label_text, ocr_results)
                 ai_status == AiStatus(comparisons)
             IN  [res EXCEPT !.ai_status = ai_status, !.final_status = ai_status,
                             !.app_file = best_app["file_name"],
                             !.category = IF force_category # NoCategory
                                          THEN force_category
                                          ELSE best_app["category"],
                             !.comparisons = comparisons]

\* the placeholder verify_labels_batch appends for a unit that raised
ErrorResult ==
    [label_file |-> "error", processing_time |-> 0, is_human_decision |-> FALSE,
     ai_status |-> "Error", final_status |-> "Error", app_file |-> "None",
     category |-> "Unknown", comparisons |-> <<>>]

-----------------------------------------------------------------------------
(* The files of the model *)

\* Application documents: name, whether the decoder can read the file, and the text
\* it returns.
DocBarrel ==
    [name |-> "barrel.txt", decodable |-> TRUE,
     raw_text |-> <<"brand name", ":", " ", "Old Barrel", "\n",
                    "class/type", ":", "Bourbon Whiskey", "\n",
                    "alcohol content", ":", "45% alc/vol", "\n",
                    "net contents", ":", "750 ml", "\n",
                    "name and address", ":", "Barrel Co", "\n",
                    "country of origin", ":", "USA">>]

DocPartial ==
    [name |-> "partial.txt", decodable |-> TRUE,
     raw_text |-> <<"Brand Name", ":", " ", "Old Barrel", " ",
                    "class/type designation", ":", "Bourbon Whiskey">>]

DocNoBrand ==
    [name |-> "nobrand.txt", decodable |-> TRUE,
     raw_text |-> <<"alcohol content", ":", "45% alc/vol", " ", "Red Wine">>]

DocBroken == [name |-> "broken.pdf", decodable |-> FALSE, raw_text |-> <<>>]

AppDocs == {DocBarrel, DocPartial, DocNoBrand, DocBroken}

Triple(t, r) == [text |-> t, box |-> [crop |-> "ok", ratio |-> r]]

\* A label image as the OCR reads it: the brand, the five other fields, the heading of
\* the health warning with its bounding box, and the statement.
Label(name, brand, abv, net, heading, statement) ==
    [name |-> name, readable |-> TRUE,
     ocr |-> <<Triple(brand, 300), Triple("Bourbon Whiskey", 300), Triple(abv, 300),
               Triple(net, 300), Triple("Barrel Co", 300), Triple("USA", 300)>>
             \o heading \o <<Triple(statement, 200)>>]

BoldHeading == <<Triple("GOVERNMENT WARNING", 401)>>

LabelPass ==
    Label("pass.png", "OLD BARREL", "45% alc/vol", "750 ml", BoldHeading,
          "statement (ocr 81)")
LabelHws80 ==
    Label("hws80.png", "OLD BARREL", "45% alc/vol", "750 ml", BoldHeading,
          "statement (ocr 80)")
LabelNoCaps ==
    Label("nocaps.png", "OLD BARREL", "45% alc/vol", "750 ml",
          <<Triple("Government Warning", 401)>>, "statement (ocr 81)")
LabelNotBold ==
    Label("notbold.png", "OLD BARREL", "45% alc/vol", "750 ml",
          <<Triple("GOVERNMENT WARNING", 400)>>, "statement (ocr 81)")
LabelSplit ==
    Label("split.png", "OLD BARREL", "45% alc/vol", "750 ml",
          <<Triple("GOVERNMENT", 400), Triple("GOVERNMENT", 401), Triple("WARNING", 401)>>,
          "statement (exact)")
LabelCropError ==
    Label("croperror.png", "OLD BARREL", "45% alc/vol", "750 ml",
          <<[text |-> "GOVERNMENT WARNING", box |-> [crop |-> "error", ratio |-> 401]],
            [text |-> "GOVERNMENT", box |-> [crop |-> "empty", ratio |-> 401]]>>,
          "statement (ocr 81)")
LabelAbv70 ==
    Label("abv70.png", "OLD BARREL", "45% a1c/vo1", "750 ml", BoldHeading,
          "statement (ocr 81)")
LabelNet71 ==
    Label("net71.png", "OLD BARREL", "45% alc/vol", "75O m1", BoldHeading,
          "statement (ocr 81)")
LabelOther ==
    Label("other.png", "Other Brand", "45% alc/vol", "750 ml", BoldHeading,
          "statement (ocr 81)")
LabelCorrupt == [name |-> "corrupt.png", readable |-> FALSE, ocr |-> <<>>]

LabelFiles == {LabelPass, LabelHws80, LabelNoCaps, LabelNotBold, LabelSplit,
               LabelCropError, LabelAbv70, LabelNet71, LabelOther, LabelCorrupt}

\* time.perf_counter() - start_time, in a unit of the model
Latencies == {1}

-----------------------------------------------------------------------------
(* Initial values of the parts of the state a specification leaves alone *)

NoMapping == [pending |-> TRUE]   \* `extracted` before the call: no extracted mapping has this key

\* the label files of the runs that interleave verifications
EngineLabels == {LabelPass, LabelAbv70, LabelOther, LabelCorrupt}

NothingReturned == [n \in {l.name : l \in EngineLabels} |-> [calls |-> 0, results |-> {}]]

NoReport == <<>>                  \* `report` of a script run without "Generate Audit Report"

ReviewIdle ==
    /\ all_results = <<>>
    /\ editing_mode = {}
    /\ st_error = "none"
    /\ report = NoReport

ExtractIdle == text = <<>> /\ extracted = NoMapping

NoResult == [pending |-> TRUE]    \* `verify_out` before the call
Raised == [raised |-> TRUE]       \* the call raised

VerifyIdle == verify_in = LabelCorrupt /\ verify_out = NoResult

BatchIdle ==
    /\ batch_files = <<>>
    /\ task_state = <<>>
    /\ batch_results = <<>>
    /\ batch_pc = "idle"
    /\ max_workers = 1

-----------------------------------------------------------------------------
(* Field extraction, checked on every text up to MaxTextLen tokens *)

TextAlphabet == {"brand name", "Brand Name", "class/type designation", "class/type",
                 "alcohol content", "government warning", ":", " ", "w"}

Texts == UNION {[1..n -> TextAlphabet] : n \in 0..MaxTextLen}

InitExtract ==
    /\ ReviewIdle /\ VerifyIdle /\ BatchIdle
    /\ returned = NothingReturned
    /\ applications = <<>>
    /\ text \in Texts
    /\ extracted = NoMapping

ExtractFields ==
    /\ extracted = NoMapping
    /\ extracted' = ExtractStructuralData(text)
    /\ UNCHANGED <<applications, reviewVars, returned, text, verifyVars, batchVars>>

\* ingest_document on a plain-text file holding `text`
IngestText ==
    /\ extracted # NoMapping
    /\ applications = <<>>
    /\ applications' =
          Append(applications, IngestRecord([name |-> "doc.txt", raw_text |-> text]))
    /\ UNCHANGED <<reviewVars, returned, extractVars, verifyVars, batchVars>>

NextExtract == ExtractFields \/ IngestText

SpecExtract == InitExtract /\ [][NextExtract]_vars

-----------------------------------------------------------------------------
(* One verification, checked on every label file against every library *)

\* the libraries ingestion can build from the documents of the model
IngestedRecords == {IngestRecord(file) : file \in {d \in AppDocs : d.decodable}}

Libraries == UNION {[1..n -> IngestedRecords] : n \in 0..MaxLibrary}

InitVerify ==
    /\ ReviewIdle /\ ExtractIdle /\ BatchIdle
    /\ returned = NothingReturned
    /\ applications \in Libraries
    /\ verify_in \in LabelFiles
    /\ verify_out = NoResult

\* a call of verify_label(verify_in) that returns
VerifyReturns ==
    /\ verify_out = NoResult
    /\ Readable(verify_in)
    /\ \E elapsed \in Latencies :
          verify_out' = VerifySingleLabel(verify_in, NoCategory, applications, elapsed)
    /\ UNCHANGED <<applications, reviewVars, returned, extractVars, verify_in, batchVars>>

\* a call of verify_label(verify_in) that raises: the image cannot be opened
VerifyRaises ==
    /\ verify_out = NoResult
    /\ ~Readable(verify_in)
    /\ verify_out' = Raised
    /\ UNCHANGED <<applications, reviewVars, returned, extractVars, verify_in, batchVars>>

NextVerify == VerifyReturns \/ VerifyRaises

SpecVerify == InitVerify /\ [][NextVerify]_vars

-----------------------------------------------------------------------------
(* The engine, called directly: ingest_document, verify_label, clear_library *)

\* what a caller compares between two verifications (processing_time is a measurement)
Observed(res) ==
    [ai_status |-> res.ai_status, app_file |-> res.app_file,
     comparisons |-> res.comparisons]

InitEngine ==
    /\ ReviewIdle /\ ExtractIdle /\ VerifyIdle /\ BatchIdle
    /\ returned = NothingReturned
    /\ applications = <<>>

\* RAGSystem.ingest_document; a file the decoder cannot read raises before the append
IngestDocument(file) ==
    /\ Len(applications) < MaxLibrary
    /\ file.decodable
    /\ applications' = Append(applications, IngestRecord(file))
    /\ returned' = NothingReturned
    /\ UNCHANGED <<reviewVars, extractVars, verifyVars, batchVars>>

\* verify_label, were it to take the matched application out of the library
VerifyLabelConsuming(label_file) ==
    /\ returned[label_file.name].calls < MaxCalls
    /\ \E elapsed \in Latencies :
          returned' = [returned EXCEPT ![label_file.name] =
              [calls |-> @.calls + 1,
               results |-> @.results \cup
                  {IF Readable(label_file)
                   THEN Observed(VerifySingleLabel(label_file, NoCategory, applications,
                                                   elapsed))
                   ELSE Raised}]]
    /\ applications' =
          IF Readable(label_file) /\ BestApp(applications, FullText(label_file.ocr)) # 0
          THEN LET best == BestApp(applications, FullText(label_file.ocr))
               IN  SubSeq(applications, 1, best - 1)
                       \o SubSeq(applications, best + 1, Len(applications))
          ELSE applications
    /\ UNCHANGED <<reviewVars, extractVars, verifyVars, batchVars>>

\* RAGSystem.verify_label: the library is read, never written
VerifyLabel(label_file) ==
    /\ returned[label_file.name].calls < MaxCalls
    /\ \E elapsed \in Latencies :
          returned' = [returned EXCEPT ![label_file.name] =
              [calls |-> @.calls + 1,
               results |-> @.results \cup
                  {IF Readable(label_file)
                   THEN Observed(VerifySingleLabel(label_file, NoCategory, applications,
                                                   elapsed))
                   ELSE Raised}]]
    /\ UNCHANGED <<applications, reviewVars, extractVars, verifyVars, batchVars>>

\* RAGSystem.clear_library
ClearLibrary ==
    /\ applications # <<>>
    /\ applications' = <<>>
    /\ returned' = NothingReturned
    /\ UNCHANGED <<reviewVars, extractVars, verifyVars, batchVars>>

NextEngine ==
    \/ \E file \in AppDocs : IngestDocument(file)
    \/ \E label_file \in EngineLabels : VerifyLabel(label_file)
    \/ ClearLibrary

SpecEngine == InitEngine /\ [][NextEngine]_vars

-----------------------------------------------------------------------------
(* verify_labels_batch, step by step: the pool's workers and the as_completed loop *)

WorkerCap == 4

\* min(multiprocessing.cpu_count(), 4)
WorkerCounts == 1..WorkerCap

\* the label files of the batch runs
BatchLabels == {LabelNet71, LabelAbv70, LabelCorrupt}

BatchInputs == UNION {[1..n -> BatchLabels] : n \in 1..MaxBatch}

\* the libraries of the batch runs
BatchLibraries == {<<>>, <<IngestRecord(DocBarrel)>>}

InitBatch ==
    /\ ReviewIdle /\ ExtractIdle /\ VerifyIdle
    /\ returned = NothingReturned
    /\ applications \in BatchLibraries
    /\ max_workers \in WorkerCounts
    /\ batch_files = <<>>
    /\ task_state = <<>>
    /\ batch_results = <<>>
    /\ batch_pc = "idle"

BatchFrame == UNCHANGED <<applications, reviewVars, returned, extractVars, verifyVars,
                          max_workers>>

TasksIn(state) == {i \in 1..Len(task_state) : task_state[i].state = state}

\* the call: every label file is submitted to the pool
BatchSubmit(label_files) ==
    /\ batch_pc = "idle"
    /\ batch_pc' = "running"
    /\ batch_files' = label_files
    /\ task_state' = [i \in 1..Len(label_files) |-> [state |-> "queued", outcome |-> NoResult]]
    /\ batch_results' = <<>>
    /\ BatchFrame

\* a free worker takes the oldest queued unit
WorkerStart(i) ==
    /\ batch_pc = "running"
    /\ i \in TasksIn("queued") /\ \A j \in TasksIn("queued") : i <= j
    /\ Cardinality(TasksIn("running")) < max_workers
    /\ task_state' = [task_state EXCEPT ![i].state = "running"]
    /\ UNCHANGED <<batch_files, batch_results, batch_pc>>
    /\ BatchFrame

\* what _verify_single_label leaves in the future of one unit
UnitOutcomes(label_file, apps) ==
    IF Readable(label_file)
    THEN {VerifySingleLabel(label_file, NoCategory, apps, elapsed) : elapsed \in Latencies}
    ELSE {Raised}

\* the worker of unit i ends: its future holds a result or an exception
WorkerFinish(i) ==
    /\ batch_pc = "running"
    /\ i \in TasksIn("running")
    /\ \E outcome \in UnitOutcomes(batch_files[i], applications) :
          task_state' = [task_state EXCEPT ![i] = [state |-> "done", outcome |-> outcome]]
    /\ UNCHANGED <<batch_files, batch_results, batch_pc>>
    /\ BatchFrame

\* the loop body, were the except branch to append nothing
CollectedDropping(results, outcome) ==
    IF outcome = Raised THEN results ELSE Append(results, outcome)

\* the body of the as_completed loop for a future holding `outcome`
Collected(results, outcome) ==
    IF outcome = Raised THEN Append(results, ErrorResult) ELSE Append(results, outcome)

\* as_completed yields the finished future of unit i
Collect(i) ==
    /\ batch_pc = "running"
    /\ i \in TasksIn("done")
    /\ batch_results' = Collected(batch_results, task_state[i].outcome)
    /\ task_state' = [task_state EXCEPT ![i].state = "yielded"]
    /\ UNCHANGED <<batch_files, batch_pc>>
    /\ BatchFrame

\* every future was yielded: the call returns `results`
BatchReturn ==
    /\ batch_pc = "running"
    /\ TasksIn("yielded") = 1..Len(task_state)
    /\ batch_pc' = "returned"
    /\ UNCHANGED <<batch_files, task_state, batch_results>>
    /\ BatchFrame

NextBatch ==
    \/ \E label_files \in BatchInputs : BatchSubmit(label_files)
    \/ \E i \in 1..Len(task_state) : WorkerStart(i)
    \/ \E i \in 1..Len(task_state) : WorkerFinish(i)
    \/ \E i \in 1..Len(task_state) : Collect(i)
    \/ BatchReturn

SpecBatch == InitBatch /\ [][NextBatch]_vars

-----------------------------------------------------------------------------
(* ingest_documents_batch, step by step: each worker runs ingest_document, which builds *)
(* its record in the local `data` and appends it to the shared library in one call      *)

\* the application documents of the batch runs
IngestDocs == {DocBarrel, DocNoBrand, DocBroken}

IngestInputs == UNION {[1..n -> IngestDocs] : n \in 1..MaxBatch}

\* the record ingest_document builds for each document of the batch runs
BuiltRecord == [file \in IngestDocs |-> IngestRecord(file)]

\* the libraries the batch runs start from
IngestLibraries == {<<>>, <<IngestRecord(DocPartial)>>}

InitIngest ==
    /\ ReviewIdle /\ ExtractIdle /\ VerifyIdle
    /\ returned = NothingReturned
    /\ applications \in IngestLibraries
    /\ max_workers \in WorkerCounts
    /\ batch_files = <<>>
    /\ task_state = <<>>
    /\ batch_results = <<>>
    /\ batch_pc = "idle"

IngestFrame == UNCHANGED <<reviewVars, returned, extractVars, verifyVars, max_workers>>

\* the call: every document is submitted to the pool
IngestSubmit(files) ==
    /\ batch_pc = "idle"
    /\ batch_pc' = "running"
    /\ batch_files' = files
    /\ task_state' = [i \in 1..Len(files) |-> [state |-> "queued", outcome |-> NoResult]]
    /\ batch_results' = <<>>
    /\ UNCHANGED applications
    /\ IngestFrame

\* ingest_document up to the append, were a failed decoding to leave its record behind
WorkerBuildLeavingPartial(i) ==
    /\ batch_pc = "running"
    /\ i \in TasksIn("running")
    /\ IF batch_files[i].decodable
       THEN /\ task_state' = [task_state EXCEPT
                                 ![i] = [state |-> "built", outcome |-> BuiltRecord[batch_files[i]]]]
            /\ UNCHANGED applications
       ELSE /\ task_state' = [task_state EXCEPT ![i] = [state |-> "done", outcome |-> Raised]]
            /\ applications' = Append(applications, ("file_name" :> batch_files[i].name))
    /\ UNCHANGED <<batch_files, batch_results, batch_pc>>
    /\ IngestFrame

\* ingest_document up to the append: the worker of document i reads and decodes the file
\* and builds the local `data`, or the decoding raises and the future holds the exception
WorkerBuild(i) ==
    /\ batch_pc = "running"
    /\ i \in TasksIn("running")
    /\ task_state' = [task_state EXCEPT
          ![i] = IF batch_files[i].decodable
                 THEN [state |-> "built", outcome |-> BuiltRecord[batch_files[i]]]
                 ELSE [state |-> "done", outcome |-> Raised]]
    /\ UNCHANGED <<applications, batch_files, batch_results, batch_pc>>
    /\ IngestFrame

\* self.applications.append(data); return data["category"]
WorkerAppend(i) ==
    /\ batch_pc = "running"
    /\ i \in TasksIn("built")
    /\ applications' = Append(applications, task_state[i].outcome)
    /\ task_state' = [task_state EXCEPT
          ![i] = [state |-> "done", outcome |-> [category |-> task_state[i].outcome["category"]]]]
    /\ UNCHANGED <<batch_files, batch_results, batch_pc>>
    /\ IngestFrame

\* the body of the as_completed loop for a future holding `outcome`
IngestCollected(results, outcome) ==
    IF outcome = Raised THEN results ELSE Append(results, outcome.category)

\* as_completed yields the finished future of document i
IngestCollect(i) ==
    /\ batch_pc = "running"
    /\ i \in TasksIn("done")
    /\ batch_results' = IngestCollected(batch_results, task_state[i].outcome)
    /\ task_state' = [task_state EXCEPT ![i].state = "yielded"]
    /\ UNCHANGED <<applications, batch_files, batch_pc>>
    /\ IngestFrame

NextIngest ==
    \/ \E files \in IngestInputs : IngestSubmit(files)
    \/ \E i \in 1..Len(task_state) : WorkerStart(i)
    \/ \E i \in 1..Len(task_state) : WorkerBuild(i)
    \/ \E i \in 1..Len(task_state) : WorkerAppend(i)
    \/ \E i \in 1..Len(task_state) : IngestCollect(i)
    \/ BatchReturn

SpecIngest == InitIngest /\ [][NextIngest]_vars

-----------------------------------------------------------------------------
(* The review application (src/app.py) *)

BatchThreshold == 5
EditMatchThreshold == 70

\* how often each file occurs in a list of files
Occurrences(files) ==
    [f \in {files[i] : i \in 1..Len(files)} |-> Cardinality({i \in 1..Len(files) : files[i] = f})]

WithoutOne(occ, f) ==
    IF occ[f] = 1 THEN [g \in DOMAIN occ \ {f} |-> occ[g]] ELSE [occ EXCEPT ![f] = @ - 1]

\* every order of the files counted by occ
RECURSIVE Arrangements(_)
Arrangements(occ) ==
    IF DOMAIN occ = {} THEN {<<>>}
    ELSE UNION {{<<f>> \o rest : rest \in Arrangements(WithoutOne(occ, f))} : f \in DOMAIN occ}

\* the orders in which the workers of a pool can finish the units submitted for `files`
CompletionOrders(files) == Arrangements(Occurrences(files))

\* what the reviewer types into the "Detected Value" box of a comparison when not leaving
\* it as it is: for the alcohol content and the net contents a reading of the label, or
\* the words "not found" when the application has no value; for the health warning the
\* words "not found"; the other boxes are left as they are
BoxTexts(comp) ==
    IF comp.field \in {"Alcohol Content", "Net Contents"}
    THEN IF comp.app = NotFound THEN {NotFound} ELSE {<<"45% / 75o">>}
    ELSE IF comp.field = "HEALTH WARNING" THEN {NotFound}
    ELSE {}

\* the uploader of tab 1: the lists of files "Build Application Library" can find there
AppUploads ==
    UNION {[1..n -> AppDocs] : n \in 0..MaxApps}
        \cup {[i \in 1..(BatchThreshold + 1) |-> DocBroken]}

\* the labels a reviewer works on
ReviewLabels == {LabelAbv70, LabelNet71, LabelOther, LabelCorrupt}

\* the uploader of tab 2: the lists of files "Start Analysis" can find there
LabelUploads ==
    {<<>>} \cup {<<l>> : l \in ReviewLabels}
        \cup {[i \in 1..(BatchThreshold + 1) |-> LabelCorrupt]}

Decodable(files) == {i \in 1..Len(files) : files[i].decodable}

\* the loop of ingest_document calls: it ends at the first file that raises
RECURSIVE IngestSequentially(_, _)
IngestSequentially(apps, files) ==
    IF files = <<>> \/ ~Head(files).decodable THEN apps
    ELSE IngestSequentially(Append(apps, IngestRecord(Head(files))), Tail(files))

\* ingest_documents_batch, as one step: the files that do not raise are appended in
\* the order in which their workers reach the append
IngestBatch(apps, completed) ==
    LET done == SelectSeq(completed, LAMBDA f : f.decodable)
    IN  apps \o [i \in 1..Len(done) |-> IngestRecord(done[i])]

\* "Build Application Library"
BuildLibrary(app_files) ==
    /\ Len(applications) + Cardinality(Decodable(app_files)) <= MaxApps
    /\ IF app_files # <<>>
       THEN IF Len(app_files) > BatchThreshold
            THEN /\ \E completed \in CompletionOrders(app_files) :
                       applications' = IngestBatch(applications, completed)
                 /\ st_error' = "none"
            ELSE /\ applications' = IngestSequentially(applications, app_files)
                 /\ st_error' = "none"
       ELSE /\ st_error' = "Please upload documents."
            /\ UNCHANGED applications
    /\ report' = NoReport
    /\ UNCHANGED <<all_results, editing_mode, returned, extractVars, verifyVars,
                   batchVars>>

\* the loop of verify_label calls: it ends at the first label that raises
RECURSIVE VerifySequentially(_, _, _, _)
VerifySequentially(results, label_files, apps, times) ==
    IF label_files = <<>> \/ ~Readable(Head(label_files)) THEN results
    ELSE VerifySequentially(
             Append(results, VerifySingleLabel(Head(label_files), NoCategory, apps,
                                               Head(times))),
             Tail(label_files), apps, Tail(times))

\* what the future of one unit of verify_labels_batch adds to `results`
UnitResults(label_file, apps) ==
    IF Readable(label_file)
    THEN {VerifySingleLabel(label_file, NoCategory, apps, elapsed) : elapsed \in Latencies}
    ELSE {ErrorResult}

\* verify_labels_batch, as one step: one result per file, in completion order
RECURSIVE VerifyBatch(_, _)
VerifyBatch(completed, apps) ==
    IF completed = <<>> THEN {<<>>}
    ELSE {<<r>> \o rest : r \in UnitResults(Head(completed), apps),
                          rest \in VerifyBatch(Tail(completed), apps)}

\* the condition without the test of the library
AnalysisStartsWithoutLibrary(label_files, apps) == label_files # <<>>

\* the condition under which "Start Analysis" starts
AnalysisStarts(label_files, apps) == label_files # <<>> /\ apps # <<>>

\* "Start Analysis"
StartAnalysis(label_files) ==
    /\ IF AnalysisStarts(label_files, applications)
       THEN IF Len(label_files) > BatchThreshold
            THEN /\ \E completed \in CompletionOrders(label_files) :
                       all_results' \in VerifyBatch(completed, applications)
                 /\ st_error' = "none"
            ELSE /\ \E times \in [1..Len(label_files) -> Latencies] :
                       all_results' =
                           VerifySequentially(<<>>, label_files, applications, times)
                 /\ st_error' = "none"
       ELSE /\ st_error' = "Upload labels and ensure library is built."
            /\ UNCHANGED all_results
    /\ report' = NoReport
    /\ UNCHANGED <<applications, editing_mode, returned, extractVars, verifyVars,
                   batchVars>>

\* Whether the script, drawing the results in order, draws row idx without raising:
\* outside edit mode the table of an empty comparison list cannot take its four column
\* names, and the run ends there.
RowDraws(idx) == idx \in editing_mode \/ all_results[idx].comparisons # <<>>

\* the buttons of row idx exist in the page
RowReached(idx) ==
    /\ idx \in 1..Len(all_results)
    /\ \A j \in 1..idx : RowDraws(j)

\* what every button of a row leaves alone; the rerun it ends with offers no report
ReviewFrame ==
    /\ report' = NoReport
    /\ UNCHANGED <<applications, returned, extractVars, verifyVars, batchVars>>

\* "OVERRIDE"
Override(idx) ==
    /\ RowReached(idx) /\ idx \notin editing_mode
    /\ ~all_results[idx].is_human_decision
    /\ all_results' = [all_results EXCEPT ![idx].final_status = "Pass",
                                          ![idx].is_human_decision = TRUE]
    /\ st_error' = "none"
    /\ UNCHANGED editing_mode /\ ReviewFrame

\* "CONFIRM FAIL"
ConfirmFail(idx) ==
    /\ RowReached(idx) /\ idx \notin editing_mode
    /\ ~all_results[idx].is_human_decision
    /\ all_results' = [all_results EXCEPT ![idx].final_status = "Fail",
                                          ![idx].is_human_decision = TRUE]
    /\ st_error' = "none"
    /\ UNCHANGED editing_mode /\ ReviewFrame

\* "EDIT FIELDS"
EditFields(idx) ==
    /\ RowReached(idx) /\ idx \notin editing_mode
    /\ ~all_results[idx].is_human_decision
    /\ editing_mode' = editing_mode \cup {idx}
    /\ st_error' = "none"
    /\ UNCHANGED all_results /\ ReviewFrame

\* "Edit Again", were it to take the reviewer's decision back as well
EditAgainResetting(idx) ==
    /\ RowReached(idx) /\ idx \notin editing_mode
    /\ all_results[idx].is_human_decision
    /\ editing_mode' = editing_mode \cup {idx}
    /\ all_results' = [all_results EXCEPT ![idx].is_human_decision = FALSE,
                                          ![idx].final_status = all_results[idx].ai_status]
    /\ st_error' = "none"
    /\ ReviewFrame

\* "Edit Again"
EditAgain(idx) ==
    /\ RowReached(idx) /\ idx \notin editing_mode
    /\ all_results[idx].is_human_decision
    /\ editing_mode' = editing_mode \cup {idx}
    /\ all_results' = [all_results EXCEPT ![idx].is_human_decision = FALSE]
    /\ st_error' = "none"
    /\ ReviewFrame

\* the recomputed status with an inclusive threshold
EditedStatusInclusive(comp, new_val) ==
    IF comp.field = "HEALTH WARNING" THEN comp.status
    ELSE IF PartialRatio(LowerText(comp.app), LowerText(new_val)) >= EditMatchThreshold
         THEN "Match" ELSE "Fail"

\* the status edit mode computes for one comparison from the text in its box
EditedStatus(comp, new_val) ==
    IF comp.field = "HEALTH WARNING" THEN comp.status
    ELSE IF PartialRatio(LowerText(comp.app), LowerText(new_val)) > EditMatchThreshold
         THEN "Match" ELSE "Fail"

EditedComparisons(comparisons, new_vals) ==
    [i \in 1..Len(comparisons) |->
        [field |-> comparisons[i].field,
         app |-> comparisons[i].app,
         label_val |-> new_vals[i],
         status |-> EditedStatus(comparisons[i], new_vals[i])]]

\* new_ai_status of "Save & Re-submit"
NewAiStatus(edited_comparisons) ==
    IF \A i \in 1..Len(edited_comparisons) : edited_comparisons[i].status = "Match"
    THEN "Pass" ELSE "Fail"

\* the contents the boxes of a row can have: each holds the current detected value
\* unless the reviewer retyped it
RECURSIVE Retyped(_, _, _)
Retyped(comparisons, defaults, n) ==
    IF n = 0 THEN {defaults}
    ELSE LET fewer == Retyped(comparisons, defaults, n - 1)
         IN  fewer \cup UNION {{[d EXCEPT ![i] = t] : d \in fewer, t \in BoxTexts(comparisons[i])} :
                                  i \in DOMAIN defaults}

BoxContents(comparisons) ==
    Retyped(comparisons, [i \in 1..Len(comparisons) |-> comparisons[i].label_val],
            MaxRetyped)

\* "Save & Re-submit"
SaveResubmit(idx, new_vals) ==
    /\ RowReached(idx) /\ idx \in editing_mode
    /\ LET edited_comparisons == EditedComparisons(all_results[idx].comparisons, new_vals)
           new_ai_status == NewAiStatus(edited_comparisons)
       IN  all_results' = [all_results EXCEPT ![idx].comparisons = edited_comparisons,
                                              ![idx].ai_status = new_ai_status,
                                              ![idx].final_status = new_ai_status,
                                              ![idx].is_human_decision = TRUE]
    /\ editing_mode' = editing_mode \ {idx}
    /\ st_error' = "none"
    /\ ReviewFrame

\* "Cancel"
Cancel(idx) ==
    /\ RowReached(idx) /\ idx \in editing_mode
    /\ editing_mode' = editing_mode \ {idx}
    /\ st_error' = "none"
    /\ UNCHANGED all_results /\ ReviewFrame

\* "Clear Cache & Library".  The handler also advances uploader_key, which renames the
\* two uploaders and so empties them; what the uploaders hold is an input of
\* BuildLibrary and StartAnalysis, not a part of the state.
ClearCache ==
    /\ applications' = <<>>
    /\ all_results' = <<>>
    /\ st_error' = "none"
    /\ report' = NoReport
    /\ UNCHANGED <<editing_mode, returned, extractVars, verifyVars, batchVars>>

\* HWS_Detail: the detected value of the first health-warning comparison, "N/A" without one
HwsDetail(r) ==
    LET hws == {k \in 1..Len(r.comparisons) : r.comparisons[k].field = "HEALTH WARNING"}
    IN  IF hws = {} THEN <<"N/A">>
        ELSE r.comparisons[CHOOSE k \in hws : \A j \in hws : k <= j].label_val

\* one row of the audit report; the Timestamp column is the clock's and is left out
ReportRow(r) ==
    [Label |-> r.label_file,
     Matched_App |-> r.app_file,
     AI_Initial |-> r.ai_status,
     Human_Override |-> IF r.ai_status # r.final_status THEN "Yes" ELSE "No",
     Final_Decision |-> r.final_status,
     HWS_Detail |-> HwsDetail(r),
     Latency |-> r.processing_time]

\* "Step 3. Generate Audit Report": the button is drawn after the rows, when there are
\* results and every row was drawn
GenerateReport ==
    /\ all_results # <<>>
    /\ \A idx \in 1..Len(all_results) : RowDraws(idx)
    /\ report' = [idx \in 1..Len(all_results) |-> ReportRow(all_results[idx])]
    /\ st_error' = "none"
    /\ UNCHANGED <<applications, all_results, editing_mode, returned, extractVars,
                   verifyVars, batchVars>>

Init ==
    /\ ReviewIdle /\ ExtractIdle /\ VerifyIdle /\ BatchIdle
    /\ returned = NothingReturned
    /\ applications = <<>>

Next ==
    \/ \E app_files \in AppUploads : BuildLibrary(app_files)
    \/ \E label_files \in LabelUploads : StartAnalysis(label_files)
    \/ \E idx \in 1..Len(all_results) : Override(idx)
    \/ \E idx \in 1..Len(all_results) : ConfirmFail(idx)
    \/ \E idx \in 1..Len(all_results) : EditFields(idx)
    \/ \E idx \in 1..Len(all_results) : EditAgain(idx)
    \/ \E idx \in 1..Len(all_results) :
          \E new_vals \in BoxContents(all_results[idx].comparisons) :
              SaveResubmit(idx, new_vals)
    \/ \E idx \in 1..Len(all_results) : Cancel(idx)
    \/ GenerateReport
    \/ ClearCache

Spec == Init /\ [][Next]_vars

-----------------------------------------------------------------------------
(* Properties of field extraction, checked under SpecExtract *)

\* the configured fields none of whose keywords occurs in the text
AbsentFields(t) ==
    {i \in 1..Len(FIELD_CONFIG) :
        \A k \in 1..Len(FIELD_CONFIG[i].keywords) :
            \A j \in 1..Len(t) : ~KwIn(FIELD_CONFIG[i].keywords[k], t[j])}

\* C6: the mapping field extraction returns holds "not found" for every configured
\* field whose keyword anchors do not appear in the text, and so does the record
\* ingestion stores, brand included.
C6_AbsentFieldIsNotFound ==
    /\ extracted # NoMapping =>
          \A i \in AbsentFields(text) :
              /\ FIELD_CONFIG[i].id \in DOMAIN extracted
              /\ extracted[FIELD_CONFIG[i].id] = NotFound
    /\ \A n \in 1..Len(applications) :
          \A i \in AbsentFields(text) :
              /\ FIELD_CONFIG[i].id \in DOMAIN applications[n]
              /\ applications[n][FIELD_CONFIG[i].id] = NotFound

\* the positions from `from` on at which keyword kw occurs in the collapsed text
OccurrencesFrom(kw, clean, from) == {p \in from..Len(clean) : KwIn(kw, clean[p])}

\* whether a keyword of field i occurs from `from` on
AnchorOccurs(i, clean, from) ==
    \E k \in 1..Len(FIELD_CONFIG[i].keywords) :
        OccurrencesFrom(FIELD_CONFIG[i].keywords[k], clean, from) # {}

\* the first-matching anchor of field i from `from` on: the leftmost occurrence of the
\* earliest configured keyword that occurs there
AnchorFrom(i, clean, from) ==
    LET kws == FIELD_CONFIG[i].keywords
        k == CHOOSE n \in 1..Len(kws) :
                 /\ OccurrencesFrom(kws[n], clean, from) # {}
                 /\ \A j \in 1..(n - 1) : OccurrencesFrom(kws[j], clean, from) = {}
        occ == OccurrencesFrom(kws[k], clean, from)
    IN  CHOOSE p \in occ : \A q \in occ : p <= q

\* the value span of a found field i, as first and last position
SpanOf(i, clean) ==
    LET first == AnchorFrom(i, clean, 1) + 1
    IN  [first |-> first,
         last |-> IF i < Len(FIELD_CONFIG) /\ AnchorOccurs(i + 1, clean, first)
                  THEN AnchorFrom(i + 1, clean, first) - 1
                  ELSE Len(clean)]

-----------------------------------------------------------------------------
(* Properties of one verification, checked under SpecVerify *)

Returned == verify_out # NoResult /\ verify_out # Raised

\* the brand-to-label similarity of the k-th application of the library
BrandScore(k) ==
    PartialRatio(LowerText(Get(applications[k], "brand", EmptyString)),
                 LowerText(FullText(verify_in.ocr)))

IsUnmatched(res) ==
    res.ai_status = "Fail" /\ res.comparisons = <<>> /\ res.app_file = "None"

\* the result is the one of a match with the k-th application of the library
IsMatchedWith(res, k) ==
    /\ res.app_file = applications[k]["file_name"]
    /\ res.comparisons =
          Comparisons(applications[k], FullText(verify_in.ocr), verify_in.ocr)

\* the earliest application among those of the highest brand score
EarliestBest(k) ==
    /\ \A j \in 1..Len(applications) : BrandScore(j) <= BrandScore(k)
    /\ \A j \in 1..(k - 1) : BrandScore(j) < BrandScore(k)

\* C4: for a matched label, the health-warning comparison is Match if and only if the
\* token-set similarity is above 80 (80 fails, 81 passes), the label text contains
\* "GOVERNMENT WARNING" in that exact case, and a bold "GOVERNMENT" box was found.
C4_HwsMatchIffAllThree ==
    (Returned /\ verify_out.comparisons # <<>>) =>
        LET hws == verify_out.comparisons[Len(verify_out.comparisons)]
            label_text == FullText(verify_in.ocr)
        IN  /\ hws.field = "HEALTH WARNING"
            /\ \A k \in 1..(Len(verify_out.comparisons) - 1) :
                   verify_out.comparisons[k].field # "HEALTH WARNING"
            /\ (hws.status = "Match") <=>
                   /\ TokenSetRatio(LowerText(label_text)) >= 81
                   /\ \E i \in 1..Len(label_text) :
                          \/ label_text[i] = "GOVERNMENT WARNING"
                          \/ /\ i < Len(label_text)
                             /\ label_text[i] = "GOVERNMENT" /\ label_text[i + 1] = "WARNING"
                   /\ \E i \in 1..Len(verify_in.ocr) :
                          /\ verify_in.ocr[i].text \in {"GOVERNMENT", "GOVERNMENT WARNING",
                                                        "Government Warning"}
                          /\ verify_in.ocr[i].box.crop = "ok"
                          /\ verify_in.ocr[i].box.ratio > 400
            /\ hws.status \in {"Match", "Fail"}

\* a matched label whose statement scores exactly 80 under a bold, capitalized heading:
\* the health-warning comparison is Fail
C4_Witness ==
    /\ Returned /\ verify_out.comparisons # <<>>
    /\ verify_out.comparisons[Len(verify_out.comparisons)].label_val = <<80, "CAPS", "BOLD">>
    /\ verify_out.comparisons[Len(verify_out.comparisons)].status = "Fail"

\* C7, as claimed: the matched application is the earliest of those with the highest
\* brand score, and the label is Unmatched only when the library is empty: with a
\* non-empty library the label is matched.
C7_UnmatchedOnlyWhenLibraryEmpty ==
    Returned =>
        IF applications = <<>> THEN IsUnmatched(verify_out)
        ELSE \E k \in 1..Len(applications) : EarliestBest(k) /\ IsMatchedWith(verify_out, k)

\* C7, amended: the matched application is the earliest of those with the highest
\* brand score, provided that score is above 0; the label is Unmatched exactly when no
\* application scores above 0, which includes the empty library.
C7_MatchedIffPositiveScore ==
    Returned =>
        IF \A j \in 1..Len(applications) : BrandScore(j) = 0
        THEN IsUnmatched(verify_out)
        ELSE \E k \in 1..Len(applications) :
                 /\ EarliestBest(k) /\ BrandScore(k) > 0
                 /\ IsMatchedWith(verify_out, k)
                 /\ ~IsUnmatched(verify_out)

\* two different applications tie on the highest score, and the earlier one is matched
C7_Witness ==
    /\ Returned /\ Len(applications) >= 2
    /\ BrandScore(1) = BrandScore(2) /\ BrandScore(1) > 0
    /\ applications[1]["file_name"] # applications[2]["file_name"]
    /\ verify_out.app_file = applications[1]["file_name"]

-----------------------------------------------------------------------------
(* Properties of the engine called directly, checked under SpecEngine *)

-----------------------------------------------------------------------------
(* Properties of verify_labels_batch, checked under SpecBatch *)

\* a result without its measured time
Untimed(res) == [res EXCEPT !.processing_time = 0]

\* what the unit of label_file contributes when verified alone against the library
AloneResult(label_file) ==
    IF Readable(label_file)
    THEN Untimed(VerifySingleLabel(label_file, NoCategory, applications, 0))
    ELSE ErrorResult

CountIn(seq, x) == Cardinality({k \in 1..Len(seq) : seq[k] = x})

\* C3: verify_labels_batch on N label files returns exactly N results; a unit that
\* raised contributes a result with AI status Error, and every other unit contributes
\* the result of verifying its file alone against the same library; no unit is dropped.
C3_OneResultPerUnit ==
    batch_pc = "returned" =>
        LET got == [k \in 1..Len(batch_results) |-> Untimed(batch_results[k])]
            want == [i \in 1..Len(batch_files) |-> AloneResult(batch_files[i])]
        IN  /\ Len(batch_results) = Len(batch_files)
            /\ \A i \in 1..Len(want) : CountIn(got, want[i]) = CountIn(want, want[i])
            /\ \A i \in 1..Len(batch_files) :
                   ~Readable(batch_files[i]) => want[i].ai_status = "Error"
            /\ \A i \in 1..Len(task_state) : task_state[i].state = "yielded"

\* a returned batch with a unit that raised and a unit that was matched, the results
\* not in the order of submission
C3_Witness ==
    /\ batch_pc = "returned" /\ Len(batch_files) >= 2
    /\ \E i \in 1..Len(batch_files) : ~Readable(batch_files[i])
    /\ \E k \in 1..Len(batch_results) : batch_results[k].comparisons # <<>>
    /\ \E k \in 1..Len(batch_results) :
          Readable(batch_files[k]) /\ batch_results[k].ai_status = "Error"

-----------------------------------------------------------------------------
(* Properties of the review application, checked under Spec *)

\* a step of one of the reviewer's buttons of a row
ReviewerAction ==
    /\ applications' = applications /\ Len(all_results') = Len(all_results)
    /\ \E idx \in 1..Len(all_results) :
          \/ Override(idx) \/ ConfirmFail(idx) \/ EditFields(idx) \/ EditAgain(idx)
          \/ Cancel(idx)
          \/ \E new_vals \in BoxContents(all_results[idx].comparisons) :
                 SaveResubmit(idx, new_vals)

StatusesOf(res) == {res.comparisons[k].status : k \in 1..Len(res.comparisons)}

FailCount(res) ==
    Cardinality({k \in 1..Len(res.comparisons) : res.comparisons[k].status = "Fail"})

\* C1: in every reachable state, a result whose human-decision flag is false has a
\* final status equal to its AI status.
C1_FinalIsAiUnlessHumanDecision ==
    \A idx \in 1..Len(all_results) :
        ~all_results[idx].is_human_decision =>
            all_results[idx].final_status = all_results[idx].ai_status

\* C2, as claimed: every result (the Unmatched result and the Error placeholder too)
\* has AI status Pass if and only if every entry of its comparison list is Match.
C2_PassIffAllMatch ==
    \A idx \in 1..Len(all_results) :
        (all_results[idx].ai_status = "Pass") <=> (StatusesOf(all_results[idx]) \subseteq {"Match"})

\* C2, amended: a result with comparisons (a Matched result, rewritten or not) has AI
\* status Pass if and only if every comparison is Match; a result without comparisons
\* is the Unmatched result (Fail) or the Error placeholder (Error), with app_file
\* "None", until Save & Re-submit rewrites it, and is Pass after that.
C2_PassIffAllMatchWhenMatched ==
    \A idx \in 1..Len(all_results) :
        LET res == all_results[idx]
        IN  IF res.comparisons # <<>>
            THEN /\ (res.ai_status = "Pass") <=> (StatusesOf(res) = {"Match"})
                 /\ FailCount(res) >= 1 => res.ai_status = "Fail"
                 /\ res.app_file # "None"
            ELSE /\ res.app_file = "None"
                 /\ IF res.is_human_decision THEN res.ai_status = "Pass"
                    ELSE res.ai_status \in {"Fail", "Error"}

\* a result Save & Re-submit rewrote, with exactly one comparison left at Fail
C2_Witness ==
    \E idx \in 1..Len(all_results) :
        /\ all_results[idx].is_human_decision
        /\ \E k \in 1..Len(all_results[idx].comparisons) :
               all_results[idx].comparisons[k].label_val = <<"45% / 75o">>
        /\ FailCount(all_results[idx]) = 1
        /\ all_results[idx].ai_status = "Fail"

LabelNamed(name) == CHOOSE l \in LabelFiles : l.name = name

\* the rule of the engine for one comparison of a field other than the health warning
EngineRule(comp, label_text) ==
    LET score == PartialRatio(LowerText(comp.app), LowerText(label_text))
    IN  /\ (comp.status = "Match") <=> (comp.app # NotFound /\ score >= 71)
        /\ comp.status \in {"Match", "Fail"}
        /\ comp.label_val = IF comp.status = "Match" THEN comp.app ELSE MismatchMissing

EngineRuleHolds(res) ==
    \A k \in 1..Len(res.comparisons) :
        res.comparisons[k].field # "HEALTH WARNING" =>
            EngineRule(res.comparisons[k], FullText(LabelNamed(res.label_file).ocr))

\* the results after the step can be those of an analysis of label_files: none is
\* decided, and each is named after one of the files or is the Error placeholder
FreshResultsOf(label_files) ==
    \A idx \in 1..Len(all_results') :
        /\ ~all_results'[idx].is_human_decision
        /\ all_results'[idx].label_file \in
               {label_files[i].name : i \in 1..Len(label_files)} \cup {"error"}

\* a step of "Start Analysis"
AnalysisStep ==
    /\ applications' = applications /\ editing_mode' = editing_mode
    /\ \E label_files \in LabelUploads :
          FreshResultsOf(label_files) /\ StartAnalysis(label_files)

\* the contents of the boxes of row idx that "Save & Re-submit" left in the result
SavedVals(idx) ==
    [k \in 1..Len(all_results'[idx].comparisons) |-> all_results'[idx].comparisons[k].label_val]

\* a step of "Save & Re-submit" on row idx
SaveStep(idx) ==
    /\ idx \in editing_mode /\ idx \notin editing_mode'
    /\ Len(all_results') = Len(all_results)
    /\ all_results'[idx].is_human_decision
    /\ SaveResubmit(idx, SavedVals(idx))

\* C5, as claimed: a comparison of a field other than the health warning is Match
\* exactly when the application value is not "not found" and the partial similarity is
\* above 70, and its detected value is the application value when Match and
\* "Mismatch/Missing" otherwise, both as the engine computes it and as edit mode
\* recomputes it from the edited value.
C5_MatchRuleEverywhere ==
    [][
        /\ AnalysisStep =>
              \A idx \in 1..Len(all_results') : EngineRuleHolds(all_results'[idx])
        /\ \A idx \in 1..Len(all_results) :
              SaveStep(idx) =>
                  \A k \in 1..Len(all_results'[idx].comparisons) :
                      all_results'[idx].comparisons[k].field # "HEALTH WARNING" =>
                          EngineRule(all_results'[idx].comparisons[k], SavedVals(idx)[k])
    ]_vars

\* C5, amended: the engine's comparisons follow the rule as claimed; a comparison edit
\* mode recomputes is Match exactly when the partial similarity of the reference value
\* and the edited detected value is above 70 (70 is Fail, 71 is Match), whether or not
\* the reference value is "not found", and its detected value is the edited value; the
\* health-warning comparison keeps its status.
C5_MatchRuleEngineAndEdit ==
    [][
        /\ AnalysisStep =>
              \A idx \in 1..Len(all_results') : EngineRuleHolds(all_results'[idx])
        /\ \A idx \in 1..Len(all_results) :
              SaveStep(idx) =>
                  /\ Len(all_results'[idx].comparisons) = Len(all_results[idx].comparisons)
                  /\ \A k \in 1..Len(all_results[idx].comparisons) :
                         LET old == all_results[idx].comparisons[k]
                             new == all_results'[idx].comparisons[k]
                             score == PartialRatio(LowerText(old.app), LowerText(new.label_val))
                         IN  old.field # "HEALTH WARNING" =>
                               /\ (new.status = "Match") <=> (score >= 71)
                               /\ new.status \in {"Match", "Fail"}
                               /\ new.app = old.app /\ new.field = old.field
                  /\ \A k \in 1..Len(all_results[idx].comparisons) :
                         all_results[idx].comparisons[k].field = "HEALTH WARNING" =>
                             all_results'[idx].comparisons[k] =
                                 [all_results[idx].comparisons[k] EXCEPT
                                     !.label_val = SavedVals(idx)[k]]
    ]_vars

\* a result whose edited values score 70 (Fail) against one reference, 71 (Match)
\* against another, and 100 (Match) against a reference "not found"
C5_Witness ==
    \E idx \in 1..Len(all_results) :
        LET comps == all_results[idx].comparisons
        IN  /\ \E k \in 1..Len(comps) :
                  /\ comps[k].label_val = <<"45% / 75o">> /\ comps[k].status = "Fail"
                  /\ PartialRatio(LowerText(comps[k].app), <<"45% / 75o">>) = 70
            /\ \E k \in 1..Len(comps) :
                  \/ /\ comps[k].label_val = <<"45% / 75o">> /\ comps[k].status = "Match"
                     /\ PartialRatio(LowerText(comps[k].app), <<"45% / 75o">>) = 71
                  \/ /\ comps[k].app = NotFound /\ comps[k].label_val = NotFound
                     /\ comps[k].field # "HEALTH WARNING" /\ comps[k].status = "Match"

C11_ReportKeepsEngineStatus ==
    [][/\ GenerateReport =>
             /\ Len(report') = Len(all_results)
             /\ \A idx \in 1..Len(all_results) : report'[idx] = ReportRow(all_results[idx])
       /\ ReviewerAction =>
             \A idx \in 1..Len(all_results) :
                 LET before == ReportRow(all_results[idx])
                     after == ReportRow(all_results'[idx])
                 IN  /\ after.AI_Initial = before.AI_Initial
                     /\ (after.Human_Override = "Yes") <=>
                            (after.Final_Decision # before.AI_Initial)
    ]_vars

-----------------------------------------------------------------------------
(* Properties of ingest_documents_batch, checked under SpecIngest *)

\* the documents whose worker has made its append
AppendedTasks ==
    {i \in 1..Len(task_state) :
        task_state[i].state \in {"done", "yielded"} /\ task_state[i].outcome # Raised}

\* the records ingest_document builds for the documents at the positions in S, in
\* submission order
RecordsOf(S) ==
    LET idxs == SelectSeq([i \in 1..Len(batch_files) |-> i], LAMBDA i : i \in S)
    IN  [k \in 1..Len(idxs) |-> BuiltRecord[batch_files[idxs[k]]]]

\* the same elements, each the same number of times
SamePopulation(a, b) ==
    /\ Len(a) = Len(b)
    /\ \A i \in 1..Len(a) :
          Cardinality({j \in 1..Len(a) : a[j] = a[i]}) =
              Cardinality({j \in 1..Len(b) : b[j] = a[i]})

\* what the library holds beyond the first n records
LibraryFrom(n) == SubSeq(applications, n + 1, Len(applications))

\* C13: at every point of a batch ingestion, whatever the order in which the workers
\* run, the library is the library the call started from followed by exactly one record
\* per document whose worker has made its append (each the complete record of that
\* document, none lost, none twice); a document whose decoding raised has added
\* nothing; and when the call has returned every decodable document has its record and
\* the returned list has one category per decodable document.
C13_OneRecordPerSuccessfulDocument ==
    batch_pc # "idle" =>
        LET before == Len(applications) - Cardinality(AppendedTasks)
        IN  /\ before >= 0
            /\ SubSeq(applications, 1, before) \in IngestLibraries
            /\ SamePopulation(LibraryFrom(before), RecordsOf(AppendedTasks))
            /\ AppendedTasks \subseteq Decodable(batch_files)
            /\ batch_pc = "returned" =>
                  /\ AppendedTasks = Decodable(batch_files)
                  /\ LET added == RecordsOf(Decodable(batch_files))
                     IN  SamePopulation(batch_results,
                                        [k \in 1..Len(added) |-> added[k]["category"]])

\* a returned call on a library that held a record, with a document that raised and two
\* different decodable documents whose records were appended against submission order
C13_Witness ==
    /\ batch_pc = "returned"
    /\ Len(applications) = 3
    /\ applications[1] = IngestRecord(DocPartial)
    /\ \E i, j, k \in 1..Len(batch_files) :
          /\ i < j
          /\ ~batch_files[k].decodable
          /\ batch_files[i].decodable /\ batch_files[j].decodable
          /\ batch_files[i] # batch_files[j]
          /\ applications[2] = BuiltRecord[batch_files[j]]
          /\ applications[3] = BuiltRecord[batch_files[i]]

====
